---- MODULE Spec2Model ----
(***************************************************************************)
(* Model of pdf_anomaly_detector.py: the classifier, the report builder,   *)
(* the quarantine copy stage and the organizer, run as the script runs     *)
(* them (top to bottom), over a small directory tree.                      *)
(*                                                                         *)
(* A Python str is a sequence of one-character strings.  A file is a path  *)
(* <<directory, base name>>; the root directory is dir <<>> and every      *)
(* other directory is a child of the root, named by its single component.  *)
(* The file system maps each existing path to a content id; Doc gives what *)
(* the collaborators (PyMuPDF, pdf2image, Tesseract) return for a content. *)
(***************************************************************************)
EXTENDS Integers, Sequences, FiniteSets, TLC

\* ------------------------------------------------------------- bounds
\* Half-width of the window of text lengths tried around each threshold.
Span == 2
\* Largest run of leading / trailing whitespace in a text.
MaxPad == 1
\* Largest number of faults of the environment over the runs: a copy that
\* fails with an I/O error, or a file that another process deletes.
MaxFaults == 1

\* -------------------------------------------------- program constants
\* len(embedded_text.strip()) < 50
EmbeddedMin == 50
\* len(ocr_text.strip()) > 100
OcrMin == 100

\* ------------------------------------------------------------ strings
Upper == <<"A", "B", "C", "D", "E", "F", "G", "H", "I", "J", "K", "L", "M", "N", "O", "P", "Q", "R", "S", "T", "U", "V", "W", "X", "Y", "Z">>
Lower == <<"a", "b", "c", "d", "e", "f", "g", "h", "i", "j", "k", "l", "m", "n", "o", "p", "q", "r", "s", "t", "u", "v", "w", "x", "y", "z">>

\* The characters of the model in code-point order (the order of a sorted listing).
Alphabet == <<"\n", "\r", " ", "(", ")", "*", ".", "/", ":", "<", ">", "?">> \o Upper \o <<"\\", "_">> \o Lower \o <<"|">>

Chars == {Alphabet[i] : i \in 1..Len(Alphabet)}

\* The code point of a character, as its place in the alphabet.
Ord == [c \in Chars |-> CHOOSE i \in 1..Len(Alphabet) : Alphabet[i] = c]

\* str.lower() on one character, then on a string.
LowerChar == [c \in Chars |-> IF \E i \in 1..Len(Upper) : Upper[i] = c THEN Lower[CHOOSE i \in 1..Len(Upper) : Upper[i] = c] ELSE c]

lower(s) == [i \in 1..Len(s) |-> LowerChar[s[i]]]

\* str.endswith(suffix)
endswith(s, suffix) == /\ Len(s) >= Len(suffix)
                       /\ SubSeq(s, Len(s) - Len(suffix) + 1, Len(s)) = suffix

Whitespace == {" ", "\n", "\r", "\t"}

\* str.strip(): drop the leading and the trailing whitespace.
strip(s) == LET keep == {i \in 1..Len(s) : s[i] \notin Whitespace}
            IN IF keep = {} THEN <<>>
               ELSE SubSeq(s, CHOOSE i \in keep : \A j \in keep : i <= j, CHOOSE i \in keep : \A j \in keep : j <= i)

\* str.replace(old, new) for one-character old and new.
replace(s, old, new) == [i \in 1..Len(s) |-> IF s[i] = old THEN new ELSE s[i]]

\* str.split(' ')[0]: the text before the first space.
FirstToken(s) == LET sp == {i \in 1..Len(s) : s[i] = " "}
                 IN IF sp = {} THEN s ELSE SubSeq(s, 1, (CHOOSE i \in sp : \A j \in sp : i <= j) - 1)

\* Lexicographic order of strings by code point.
\* a < b: at the first place where they differ, a has ended or has the
\* smaller character.
StrLess(a, b) == \E k \in 1..Len(b) :
                    /\ \A j \in 1..(k - 1) : j <= Len(a) /\ a[j] = b[j]
                    /\ k > Len(a) \/ Ord[a[k]] < Ord[b[k]]

\* ------------------------------------------------------ status labels
LabelConsistent == <<"C", "o", "n", "s", "i", "s", "t", "e", "n", "t", " ", "t", "e", "x", "t", " ", "(", "O", "K", ")">>
LabelImageOnly == <<"I", "m", "a", "g", "e", " ", "o", "n", "l", "y", " ", "(", "p", "o", "s", "s", "i", "b", "l", "y", " ", "s", "c", "a", "n", "n", "e", "d", " ", "o", "r", " ", "e", "d", "i", "t", "e", "d", ")">>
LabelInconsistent == <<"I", "n", "c", "o", "n", "s", "i", "s", "t", "e", "n", "t", " ", "t", "e", "x", "t", " ", "b", "e", "t", "w", "e", "e", "n", " ", "O", "C", "R", " ", "a", "n", "d", " ", "e", "m", "b", "e", "d", "d", "e", "d", " ", "t", "e", "x", "t">>
ErrorPrefix == <<"E", "r", "r", "o", "r", " ", "p", "r", "o", "c", "e", "s", "s", "i", "n", "g", ":", " ">>

\* ------------------------------------------------------------ texts
\* A page text is kept by its shape: `lead` whitespace characters, then
\* `core` characters that begin and end with a non-blank, then `trail`
\* whitespace characters.
TextStrip(t) == [lead |-> 0, core |-> t.core, trail |-> 0]

TextLen(t) == t.lead + t.core + t.trail

\* ----------------------------------------------------------- classifier
\* classify_pdf_by_text on a document d = [emb, ocr, raises, msg]:
\* d.raises names the collaborator call that raises ("none" when none
\* does) and d.msg is str(e) of the exception.
MutClassifyGe(d) == IF d.raises = "extract" THEN ErrorPrefix \o d.msg
    ELSE IF TextLen(TextStrip(d.emb)) < EmbeddedMin
         THEN IF d.raises \in {"render", "ocr"} THEN ErrorPrefix \o d.msg
              ELSE IF TextLen(TextStrip(d.ocr)) >= OcrMin THEN LabelImageOnly
              ELSE LabelInconsistent
         ELSE LabelConsistent

MutClassifyRaise(d) == IF d.raises = "extract" THEN ErrorPrefix \o d.msg
    ELSE IF TextLen(TextStrip(d.emb)) < EmbeddedMin
         THEN IF d.raises \in {"render", "ocr"} THEN d.msg
              ELSE IF TextLen(TextStrip(d.ocr)) > OcrMin THEN LabelImageOnly
              ELSE LabelInconsistent
         ELSE LabelConsistent

classify_pdf_by_text(d) == IF d.raises = "extract" THEN ErrorPrefix \o d.msg
    ELSE IF TextLen(TextStrip(d.emb)) < EmbeddedMin
         THEN IF d.raises \in {"render", "ocr"} THEN ErrorPrefix \o d.msg
              ELSE IF TextLen(TextStrip(d.ocr)) > OcrMin THEN LabelImageOnly
              ELSE LabelInconsistent
         ELSE LabelConsistent

\* ------------------------------------------------------- configuration
\* pdf_directory is the root: directory <<>>.
pdf_directory == <<>>

suspect_destination == <<"S", "u", "s", "p", "i", "c", "i", "o", "u", "s", "_", "P", "D", "F", "s">>

\* The base name of report_path_json.
report_path_json == <<"p", "d", "f", "_", "a", "n", "o", "m", "a", "l", "i", "e", "s", "_", "r", "e", "p", "o", "r", "t", ".", "j", "s", "o", "n">>

DotPdf == <<".", "p", "d", "f">>

\* os.path.join(directory, name)
join(dir, name) == <<dir, name>>

\* ---------------------------------------------------------- environment
NameA == <<"a", ".", "p", "d", "f">>
NameB == <<"b", ".", "P", "D", "F">>
NameN == <<"n", ".", "t", "x", "t">>
Sub == <<"s", "u", "b">>
MsgOcr == <<"o", "c", "r", ":", " ", "x", "/", "y">>
MsgOpen == <<"n", "o", " ", "f", "i", "l", "e">>

Text(l, c, t) == [lead |-> l, core |-> c, trail |-> t]

\* What the collaborators return for each content a file of the tree may hold.
Doc(c) == CASE c = "ok" -> [emb |-> Text(MaxPad, EmbeddedMin, 0), ocr |-> Text(0, 0, 0), raises |-> "none", msg |-> <<>>]
            [] c = "image" -> [emb |-> Text(0, EmbeddedMin - 1, MaxPad), ocr |-> Text(0, OcrMin + 1, 0), raises |-> "none", msg |-> <<>>]
            [] c = "blank" -> [emb |-> Text(MaxPad, 0, 0), ocr |-> Text(MaxPad, OcrMin, 0), raises |-> "none", msg |-> <<>>]
            [] c = "broken" -> [emb |-> Text(0, 0, 0), ocr |-> Text(0, 0, 0), raises |-> "ocr", msg |-> MsgOcr]
            [] c = "corrupt" -> [emb |-> Text(0, 0, 0), ocr |-> Text(0, 0, 0), raises |-> "extract", msg |-> MsgOpen]
            [] OTHER -> [emb |-> Text(0, 0, 0), ocr |-> Text(0, 0, 0), raises |-> "extract", msg |-> MsgOpen]

\* The files a tree may hold before the first run, each with its possible contents.
SlotDocs(p) == IF p = join(Sub, NameB) THEN {"ok", "corrupt"}
               ELSE IF p = join(Sub, NameA) THEN {"ok", "image", "blank"}
               ELSE {"ok", "image", "broken"}

SlotPaths == {join(pdf_directory, NameA), join(Sub, NameA), join(Sub, NameB)}

InitTrees == {f \in UNION {[D -> {"ok", "image", "blank", "broken", "corrupt"}] : D \in SUBSET SlotPaths} : \A p \in DOMAIN f : f[p] \in SlotDocs(p)}

\* A tree always holds one file that is no PDF.
WithNote(f) == [p \in DOMAIN f \cup {join(pdf_directory, NameN)} |-> IF p \in DOMAIN f THEN f[p] ELSE "note"]

\* ---------------------------------------------------------------- state
VARIABLES fs, dirs, order, pass, pc, walk, wi, anomaly_report, json_file, prev_json, suspects, si, index_walk, arquivo_map, oi, out, fails, done_q, done_o, removed, arg, ret

vars == <<fs, dirs, order, pass, pc, walk, wi, anomaly_report, json_file, prev_json, suspects, si, index_walk, arquivo_map, oi, out, fails, done_q, done_o, removed, arg, ret>>

\* ------------------------------------------------------------- os.walk
\* x comes before y in the listing order: ascending or descending.
Before(x, y, ord) == IF ord = "asc" THEN StrLess(x, y) ELSE StrLess(y, x)

\* Path p is met before path q: the files of the root come first, then the
\* directories below it in listing order, and in a directory its files in
\* listing order.
PathBefore(p, q, ord) == \/ p[1] = pdf_directory /\ q[1] # pdf_directory
                         \/ p[1] # pdf_directory /\ q[1] # pdf_directory /\ Before(p[1], q[1], ord)
                         \/ p[1] = q[1] /\ Before(p[2], q[2], ord)

FilesIn(fsys, dir) == {p[2] : p \in {q \in DOMAIN fsys : q[1] = dir}}

\* os.walk(pdf_directory), top-down, as the sequence of (root, file) pairs:
\* the i-th is the file that i - 1 files are met before.
os_walk(fsys, ord) == [i \in 1..Cardinality(DOMAIN fsys) |->
    CHOOSE p \in DOMAIN fsys : Cardinality({q \in DOMAIN fsys : PathBefore(q, p, ord)}) = i - 1]

\* ------------------------------------------------------ report builder
MutIsPdfCaseSensitive(file_name) == endswith(file_name, DotPdf)

\* file_name.lower().endswith(".pdf")
IsPdf(file_name) == endswith(lower(file_name), DotPdf)

Record(file_name, status) == [file |-> file_name, text_status |-> status]

\* ---------------------------------------------------------- quarantine
IsSuspect(row) == row.text_status \in {LabelImageOnly, LabelInconsistent}

filter_suspects(report) == SelectSeq(report, IsSuspect)

\* source = os.path.join(pdf_directory, suspect["file"])
SuspectSource(suspect) == join(pdf_directory, suspect.file)

\* new_name = f"{status.split(' ')[0].lower()}_{file}"
NewName(suspect) == lower(FirstToken(suspect.text_status)) \o <<"_">> \o suspect.file

SuspectDestination(suspect) == join(suspect_destination, NewName(suspect))

\* ------------------------------------------------------------ shutil
\* shutil.copy2(src, dst) raises when src does not exist, when src and dst
\* are the same file, or when the directory of dst does not exist.
CanCopy(fsys, ds, src, dst) == /\ src \in DOMAIN fsys
                               /\ src # dst
                               /\ dst[1] \in ds \cup {pdf_directory}

Copied(fsys, src, dst) == [p \in DOMAIN fsys \cup {dst} |-> IF p = dst THEN fsys[src] ELSE fsys[p]]

\* ------------------------------------------------------------ organizer
IllegalChars == {"<", ">", ":", "\"", "/", "\\", "|", "?", "*", "\n", "\r"}

\* re.sub(r'[<>:"/\\|?*\n\r]', '_', path)
sanitize_path(path) == [i \in 1..Len(path) |-> IF path[i] \in IllegalChars THEN "_" ELSE path[i]]

\* status = item.get("text_status").strip().replace(" ", "_")
\* status = sanitize_path(status)
StatusFolder(item) == CHOOSE folder \in {sanitize_path(status) : status \in {replace(stripped, " ", "_") : stripped \in {strip(item.text_status)}}} : TRUE

\* arquivo_map[file] = os.path.join(root, file) over the walk: the last wins.
BuildArquivoMap(w) == [n \in {w[i][2] : i \in 1..Len(w)} |->
    w[CHOOSE i \in 1..Len(w) : w[i][2] = n /\ \A j \in 1..Len(w) : w[j][2] = n => j <= i]]

\* ------------------------------------------------------------- history
SuspectIndices(report) == {i \in 1..Len(report) : IsSuspect(report[i])}

\* The position in the report of the k-th row filter_suspects keeps.
ReportIndex(report, k) == CHOOSE i \in SuspectIndices(report) : Cardinality({j \in SuspectIndices(report) : j <= i}) = k

\* json.dump(anomaly_report, ...): the array of {"file", "text_status"} objects.
json_dump(report) == [i \in 1..Len(report) |-> [file |-> report[i].file, text_status |-> report[i].text_status]]

\* ------------------------------------------------------------- pipeline
Init == /\ fs \in {WithNote(f) : f \in InitTrees}
        /\ dirs = {Sub}
        /\ order \in {"asc", "desc"}
        /\ pass = "first"
        /\ pc = "start"
        /\ walk = <<>>
        /\ wi = 1
        /\ anomaly_report = <<>>
        /\ json_file = <<>>
        /\ prev_json = <<>>
        /\ suspects = <<>>
        /\ si = 1
        /\ index_walk = <<>>
        /\ arquivo_map = <<>>
        /\ oi = 1
        /\ out = <<>>
        /\ fails = 0
        /\ removed = 0
        /\ done_q = {}
        /\ done_o = {}
        /\ arg = <<>>
        /\ ret = <<>>

\* for root, _, files in os.walk(pdf_directory): the walk begins.
StartWalk == /\ pc = "start"
             /\ walk' = os_walk(fs, order)
             /\ wi' = 1
             /\ pc' = "analyze"
             /\ UNCHANGED <<fs, dirs, order, pass, anomaly_report, json_file, prev_json, suspects, si, index_walk, arquivo_map, oi, out, fails, done_q, done_o, removed, arg, ret>>

\* One file of the walk: classified and recorded when its name ends in .pdf.
ClassifyFile == /\ pc = "analyze"
                /\ wi <= Len(walk)
                /\ anomaly_report' = IF IsPdf(walk[wi][2])
                                     THEN Append(anomaly_report, Record(walk[wi][2], classify_pdf_by_text(Doc(fs[walk[wi]]))))
                                     ELSE anomaly_report
                /\ wi' = wi + 1
                /\ UNCHANGED <<fs, dirs, order, pass, pc, walk, json_file, prev_json, suspects, si, index_walk, arquivo_map, oi, out, fails, done_q, done_o, removed, arg, ret>>

\* The walk is over: the report is returned and written to report_path_json.
SaveReport == /\ pc = "analyze"
              /\ wi > Len(walk)
              /\ json_file' = <<json_dump(anomaly_report)>>
              /\ fs' = [p \in DOMAIN fs \cup {join(pdf_directory, report_path_json)} |-> IF p = join(pdf_directory, report_path_json) THEN "report" ELSE fs[p]]
              /\ pc' = "mkdir"
              /\ UNCHANGED <<dirs, order, pass, walk, wi, anomaly_report, prev_json, suspects, si, index_walk, arquivo_map, oi, out, fails, done_q, done_o, removed, arg, ret>>

\* os.makedirs(suspect_destination, exist_ok=True)
MakeSuspectDir == /\ pc = "mkdir"
                  /\ dirs' = dirs \cup {suspect_destination}
                  /\ pc' = "filter"
                  /\ UNCHANGED <<fs, order, pass, walk, wi, anomaly_report, json_file, prev_json, suspects, si, index_walk, arquivo_map, oi, out, fails, done_q, done_o, removed, arg, ret>>

\* suspects = filter_suspects(anomaly_report)
FilterSuspects == /\ pc = "filter"
                  /\ suspects' = filter_suspects(anomaly_report)
                  /\ si' = 1
                  /\ pc' = "quarantine"
                  /\ UNCHANGED <<fs, dirs, order, pass, walk, wi, anomaly_report, json_file, prev_json, index_walk, arquivo_map, oi, out, fails, done_q, done_o, removed, arg, ret>>

MutAbortOnError(i, ok) == IF ok THEN i + 1 ELSE Len(suspects) + 1

\* The loop of copy_suspect_pdfs goes on to the next suspect, copied or not.
AfterSuspect(i, ok) == i + 1

\* One iteration of copy_suspect_pdfs: the copy succeeds, or it raises
\* (by itself, or by an I/O failure of the environment) and a line is printed.
CopySuspect == /\ pc = "quarantine"
               /\ si <= Len(suspects)
               /\ LET source == SuspectSource(suspects[si])
                      destination == SuspectDestination(suspects[si])
                  IN \E io_error \in BOOLEAN :
                       /\ io_error => (fails + removed < MaxFaults /\ CanCopy(fs, dirs, source, destination))
                       /\ fails' = IF io_error THEN fails + 1 ELSE fails
                       /\ IF CanCopy(fs, dirs, source, destination) /\ ~io_error
                          THEN /\ fs' = Copied(fs, source, destination)
                               /\ done_q' = done_q \cup {ReportIndex(anomaly_report, si)}
                               /\ out' = out
                               /\ si' = AfterSuspect(si, TRUE)
                          ELSE /\ out' = Append(out, <<"Error copying", suspects[si].file>>)
                               /\ si' = AfterSuspect(si, FALSE)
                               /\ UNCHANGED <<fs, done_q>>
               /\ UNCHANGED <<dirs, order, pass, pc, walk, wi, anomaly_report, json_file, prev_json, suspects, index_walk, arquivo_map, oi, done_o, removed, arg, ret>>

\* print(f"{len(suspects)} suspicious files were copied to ...")
PrintCount == /\ pc = "quarantine"
              /\ si > Len(suspects)
              /\ out' = Append(out, <<"suspicious files were copied", Len(suspects)>>)
              /\ pc' = "index"
              /\ UNCHANGED <<fs, dirs, order, pass, walk, wi, anomaly_report, json_file, prev_json, suspects, si, index_walk, arquivo_map, oi, fails, done_q, done_o, removed, arg, ret>>

\* Another process deletes a file the run has classified, after the
\* quarantine stage and before arquivo_map is built.
ExternalDelete == /\ pc = "index"
                  /\ fails + removed < MaxFaults
                  /\ \E p \in {walk[i] : i \in 1..Len(walk)} \cap DOMAIN fs :
                       /\ IsPdf(p[2])
                       /\ fs' = [q \in DOMAIN fs \ {p} |-> fs[q]]
                  /\ removed' = removed + 1
                  /\ UNCHANGED <<dirs, order, pass, pc, walk, wi, anomaly_report, json_file, prev_json, suspects, si, index_walk, arquivo_map, oi, out, fails, done_q, done_o, arg, ret>>

MutIndexRootOnly(fsys, ord) == os_walk([p \in {q \in DOMAIN fsys : q[1] = pdf_directory} |-> fsys[p]], ord)

\* The files the map is built from: for root, _, files in os.walk(pdf_directory).
IndexWalk(fsys, ord) == os_walk(fsys, ord)

\* arquivo_map is built by a second walk of the root.
BuildIndex == /\ pc = "index"
              /\ index_walk' = IndexWalk(fs, order)
              /\ arquivo_map' = BuildArquivoMap(index_walk')
              /\ oi' = 1
              /\ pc' = "organize"
              /\ UNCHANGED <<fs, dirs, order, pass, walk, wi, anomaly_report, json_file, prev_json, suspects, si, out, fails, done_q, done_o, removed, arg, ret>>

MutFolderRaw(item) == item.text_status

\* destino_dir = os.path.join(pdf_directory, status), as the directory's name.
DestinoDir(item) == StatusFolder(item)

\* One iteration of organize_files_by_status.
OrganizeItem == /\ pc = "organize"
                /\ oi <= Len(anomaly_report)
                /\ LET item == anomaly_report[oi]
                       file_name == item.file
                   IN IF file_name \in DOMAIN arquivo_map
                      THEN LET origem == arquivo_map[file_name]
                               destino_dir == DestinoDir(item)
                               destino_arquivo == join(destino_dir, file_name)
                               made == dirs \cup {destino_dir}
                           IN /\ dirs' = made
                              /\ \E io_error \in BOOLEAN :
                                   /\ io_error => (fails + removed < MaxFaults /\ CanCopy(fs, made, origem, destino_arquivo))
                                   /\ fails' = IF io_error THEN fails + 1 ELSE fails
                                   /\ IF CanCopy(fs, made, origem, destino_arquivo) /\ ~io_error
                                      THEN /\ fs' = Copied(fs, origem, destino_arquivo)
                                           /\ done_o' = done_o \cup {oi}
                                           /\ out' = out
                                      ELSE /\ out' = Append(out, <<"Failed to copy", origem, destino_arquivo>>)
                                           /\ UNCHANGED <<fs, done_o>>
                      ELSE /\ out' = Append(out, <<"File not found", file_name>>)
                           /\ UNCHANGED <<fs, dirs, fails, done_o>>
                /\ oi' = oi + 1
                /\ UNCHANGED <<order, pass, pc, walk, wi, anomaly_report, json_file, prev_json, suspects, si, index_walk, arquivo_map, done_q, removed, arg, ret>>

\* print("Finished.")
Finish == /\ pc = "organize"
          /\ oi > Len(anomaly_report)
          /\ out' = Append(out, <<"Finished.">>)
          /\ pc' = "done"
          /\ UNCHANGED <<fs, dirs, order, pass, walk, wi, anomaly_report, json_file, prev_json, suspects, si, index_walk, arquivo_map, oi, fails, done_q, done_o, removed, arg, ret>>

\* The script is run a second time on the tree the first run left: a new
\* process, whose memory starts empty; prev_json keeps the first report.
Rerun == /\ pc = "done"
         /\ pass = "first"
         /\ pass' = "second"
         /\ prev_json' = json_file
         /\ pc' = "start"
         /\ walk' = <<>>
         /\ wi' = 1
         /\ anomaly_report' = <<>>
         /\ suspects' = <<>>
         /\ si' = 1
         /\ index_walk' = <<>>
         /\ arquivo_map' = <<>>
         /\ oi' = 1
         /\ out' = <<>>
         /\ done_q' = {}
         /\ done_o' = {}
         /\ UNCHANGED <<fs, dirs, order, json_file, fails, removed, arg, ret>>

Next == \/ StartWalk
        \/ ClassifyFile
        \/ SaveReport
        \/ MakeSuspectDir
        \/ FilterSuspects
        \/ CopySuspect
        \/ PrintCount
        \/ ExternalDelete
        \/ BuildIndex
        \/ OrganizeItem
        \/ Finish
        \/ Rerun

Spec == Init /\ [][Next]_vars

\* The script runs to its end: no statement of it waits on anything.
FairSpec == Init /\ [][Next]_vars /\ WF_vars(Next)

\* ------------------------------------------- the classifier on its own
\* The documents classify_pdf_by_text is tried on: trimmed lengths in a
\* window around each threshold, padded with whitespace, and every
\* collaborator call that may raise.
Window(mid) == (mid - Span)..(mid + Span)

ClassifyDocs == {[emb |-> Text(l, e, t), ocr |-> Text(l2, o, 0), raises |-> r, msg |-> IF r = "none" THEN <<>> ELSE MsgOcr] :
                   l \in 0..MaxPad, t \in 0..MaxPad, e \in Window(EmbeddedMin), l2 \in 0..MaxPad, o \in Window(OcrMin),
                   r \in {"none", "extract", "render", "ocr"}}

InitClassify == /\ arg \in {<<d>> : d \in ClassifyDocs}
                /\ ret = <<>>
                /\ pc = "call"
                /\ fs = WithNote(<<>>)
                /\ dirs = {Sub}
                /\ order = "asc"
                /\ pass = "first"
                /\ walk = <<>>
                /\ wi = 1
                /\ anomaly_report = <<>>
                /\ json_file = <<>>
                /\ prev_json = <<>>
                /\ suspects = <<>>
                /\ si = 1
                /\ index_walk = <<>>
                /\ arquivo_map = <<>>
                /\ oi = 1
                /\ out = <<>>
                /\ fails = 0
                /\ removed = 0
                /\ done_q = {}
                /\ done_o = {}

\* status = classify_pdf_by_text(full_path), for the document at that path.
ClassifyCall == /\ pc = "call"
                /\ ret' = <<classify_pdf_by_text(arg[1])>>
                /\ pc' = "returned"
                /\ UNCHANGED <<fs, dirs, order, pass, walk, wi, anomaly_report, json_file, prev_json, suspects, si, index_walk, arquivo_map, oi, out, fails, done_q, done_o, removed, arg>>

NextClassify == ClassifyCall

SpecClassify == InitClassify /\ [][NextClassify]_vars

\* ================================================================ claims
\* The trimmed length of a text: its characters without the leading and
\* the trailing whitespace.
Trimmed(t) == t.core

\* C1: when no collaborator call fails, classify returns Consistent for a
\* trimmed embedded length e >= 50, ImageOnly for e < 50 and a trimmed OCR
\* length o > 100, and Inconsistent for e < 50 and o <= 100.
C1_Thresholds == (pc = "returned" /\ arg[1].raises = "none") =>
    LET e == Trimmed(arg[1].emb)
        o == Trimmed(arg[1].ocr)
    IN /\ e >= 50 => ret[1] = LabelConsistent
       /\ (e < 50 /\ o > 100) => ret[1] = LabelImageOnly
       /\ (e < 50 /\ o <= 100) => ret[1] = LabelInconsistent

\* C1 witness: the boundary case e = 49, o = 100 of a padded text was
\* classified Inconsistent.
C1_Witness == /\ pc = "returned"
              /\ arg[1].raises = "none"
              /\ Trimmed(arg[1].emb) = 49 /\ arg[1].emb.trail > 0
              /\ Trimmed(arg[1].ocr) = 100 /\ arg[1].ocr.lead > 0
              /\ ret[1] = LabelInconsistent

\* A name that ends in ".pdf" whatever the case of its letters.
EndsPdfAnyCase(name) == /\ Len(name) >= 4
                        /\ name[Len(name) - 3] = "."
                        /\ name[Len(name) - 2] \in {"p", "P"}
                        /\ name[Len(name) - 1] \in {"d", "D"}
                        /\ name[Len(name)] \in {"f", "F"}

EntryIsPdf(entry) == EndsPdfAnyCase(entry[2])

\* The PDFs among the first n entries of the walk, in discovery order.
Discovered(n) == SelectSeq(SubSeq(walk, 1, n), EntryIsPdf)

\* A collaborator call made for the document raises.
CallRaises(d) == \/ d.raises = "extract"
                 \/ d.raises \in {"render", "ocr"} /\ Trimmed(d.emb) < 50

IsErrorStatus(status) == /\ Len(status) >= Len(ErrorPrefix)
                         /\ SubSeq(status, 1, Len(ErrorPrefix)) = ErrorPrefix

\* C2: the report is exactly, in walk discovery order, one record per file
\* whose name ends case-insensitively in .pdf; a PDF whose collaborator
\* call raises gets its record with an Error status, and the PDFs after it
\* are classified and recorded all the same.
C2_ReportIsWalk == (pc \in {"analyze", "mkdir", "filter"}) =>
    LET pdfs == Discovered(wi - 1)
    IN /\ pc # "analyze" => wi = Len(walk) + 1
       /\ pc # "analyze" => \A p \in DOMAIN fs : EndsPdfAnyCase(p[2]) => Cardinality({i \in 1..Len(pdfs) : pdfs[i] = p}) = 1
       /\ Len(anomaly_report) = Len(pdfs)
       /\ \A i \in 1..Len(pdfs) :
            /\ anomaly_report[i].file = pdfs[i][2]
            /\ CallRaises(Doc(fs[pdfs[i]])) <=> IsErrorStatus(anomaly_report[i].text_status)
            /\ ~CallRaises(Doc(fs[pdfs[i]])) => anomaly_report[i].text_status \in {LabelConsistent, LabelImageOnly, LabelInconsistent}

\* C2 witness: a complete report in which a record with an Error status is
\* followed by the record of a PDF (with an upper-case extension) classified
\* after it.
C2_Witness == /\ pc = "mkdir"
              /\ \E i, j \in 1..Len(anomaly_report) :
                   /\ i < j
                   /\ IsErrorStatus(anomaly_report[i].text_status)
                   /\ anomaly_report[j].file = NameB
                   /\ anomaly_report[j].text_status = LabelConsistent

\* The rows of the report with a suspicious status.
Suspicious(report) == {i \in 1..Len(report) : report[i].text_status \in {LabelImageOnly, LabelInconsistent}}

\* <lowercased first token of the status label>_<original file name>
QuarantineName(row) == IF row.text_status = LabelImageOnly
                       THEN <<"i", "m", "a", "g", "e", "_">> \o row.file
                       ELSE <<"i", "n", "c", "o", "n", "s", "i", "s", "t", "e", "n", "t", "_">> \o row.file

\* C3 (as claimed): after the quarantine stage of a first run without any
\* fault of the environment, the quarantine folder holds one file for each
\* record with status ImageOnly or Inconsistent, named <prefix>_<file name>,
\* and no other file, wherever under the root the recorded file lies.
C3_Original == (pc = "index" /\ pass = "first" /\ fails = 0 /\ removed = 0) =>
    /\ FilesIn(fs, suspect_destination) = {QuarantineName(anomaly_report[i]) : i \in Suspicious(anomaly_report)}
    /\ Cardinality(FilesIn(fs, suspect_destination)) = Cardinality(Suspicious(anomaly_report))

\* C4 (as claimed): the count the quarantine stage prints equals the number
\* of copies it made in that run.
C4_Original == (pc = "index") => out[Len(out)][2] = Cardinality(done_q)

\* C5 (as claimed): with no fault of the environment, the report the second
\* run writes equals the report the first run wrote.
C5_Original == (pass = "second" /\ pc \notin {"start", "analyze"} /\ fails = 0 /\ removed = 0) => json_file = prev_json

\* The labels as the specification's text gives them.
SpecConsistent == <<"C", "o", "n", "s", "i", "s", "t", "e", "n", "t", " ", "e", "m", "b", "e", "d", "d", "e", "d", " ", "t", "e", "x", "t">>
SpecInconsistent == <<"I", "n", "c", "o", "n", "s", "i", "s", "t", "e", "n", "t", " ", "O", "C", "R", " ", "v", "s", " ", "e", "m", "b", "e", "d", "d", "e", "d", " ", "t", "e", "x", "t">>
SpecErrorPrefix == <<"P", "r", "o", "c", "e", "s", "s", "i", "n", "g", " ", "e", "r", "r", "o", "r", ":", " ">>

HasPrefix(s, prefix) == Len(s) >= Len(prefix) /\ SubSeq(s, 1, Len(prefix)) = prefix

\* C8 (as claimed): every status written to the JSON report is "Consistent
\* embedded text", "Image only (possibly scanned or edited)", "Inconsistent
\* OCR vs embedded text" or "Processing error: <detail>".
C8_Original == json_file # <<>> =>
    \A i \in 1..Len(json_file[1]) :
       \/ json_file[1][i].text_status \in {SpecConsistent, LabelImageOnly, SpecInconsistent}
       \/ HasPrefix(json_file[1][i].text_status, SpecErrorPrefix)

\* C8 (amended): every status written to the JSON report is "Consistent text
\* (OK)", "Image only (possibly scanned or edited)", "Inconsistent text
\* between OCR and embedded text" or "Error processing: <detail>", the
\* detail being the message of the failure.
C8_CodeLabels == json_file # <<>> =>
    \A i \in 1..Len(json_file[1]) :
       \/ json_file[1][i].text_status \in {LabelConsistent, LabelImageOnly, LabelInconsistent}
       \/ \E m \in {MsgOcr, MsgOpen} : json_file[1][i].text_status = ErrorPrefix \o m

\* C8 witness: a written report that holds a Consistent, an Inconsistent and
\* an Error status.
C8_Witness == /\ json_file # <<>>
              /\ \E i, j, k \in 1..Len(json_file[1]) :
                   /\ json_file[1][i].text_status = LabelConsistent
                   /\ json_file[1][j].text_status = LabelInconsistent
                   /\ json_file[1][k].text_status = ErrorPrefix \o MsgOcr

\* The files the run classified, in report order.
Classified == Discovered(Len(walk))

\* No copy of the run has failed.
NoCopyFailed == \A k \in 1..Len(out) : out[k][1] \notin {"Error copying", "Failed to copy"}

\* The number of files the index walk met under a base name.
Bearers(name) == Cardinality({j \in 1..Len(index_walk) : index_walk[j][2] = name})

\* The copy of report row i in the folder of its status.
Organized(i) == join(StatusFolder(anomaly_report[i]), anomaly_report[i].file)

\* C6 (as claimed): after a complete run in which no copy fails, for every
\* classified PDF the folder root/<sanitized status>/ holds, under the PDF's
\* base name, a copy of that same file, whatever base names other files have.
C6_Original == (pc = "done" /\ NoCopyFailed /\ removed = 0) =>
    \A i \in 1..Len(anomaly_report) :
       /\ Organized(i) \in DOMAIN fs
       /\ fs[Organized(i)] = fs[Classified[i]]

\* The i-th classified file is, when the file index is built, the only
\* file under the root that bears its base name.
OnlyBearer(i) == /\ Bearers(anomaly_report[i].file) = 1
                 /\ \E j \in 1..Len(index_walk) : index_walk[j] = Classified[i]

\* C6 (amended): after a complete run in which no copy fails, for every
\* classified PDF that is, when the file index is built, the only file under
\* the root bearing its base name, the folder root/<sanitized status>/
\* holds, under the PDF's base name, a copy of that same file.
C6_UniqueNames == (pc = "done" /\ NoCopyFailed) =>
    \A i \in 1..Len(anomaly_report) :
       OnlyBearer(i) =>
          /\ Organized(i) \in DOMAIN fs
          /\ fs[Organized(i)] = fs[Classified[i]]

\* C6 witness: a complete run without a failed copy that organized, beside
\* another PDF, a PDF of the subdirectory with an Error status and a base
\* name of its own into the folder of its sanitized status.
C6_Witness == /\ pc = "done" /\ NoCopyFailed /\ removed = 0
              /\ Len(anomaly_report) >= 2
              /\ \E i \in 1..Len(anomaly_report) :
                   /\ Classified[i] = join(Sub, NameB)
                   /\ OnlyBearer(i)
                   /\ IsErrorStatus(anomaly_report[i].text_status)
                   /\ Organized(i) \in DOMAIN fs
                   /\ fs[Organized(i)] = "corrupt"

\* A step of the quarantine loop, and a step of the organizer's loop.
QuarantineStep == pc = "quarantine" /\ si <= Len(suspects) /\ si' # si

OrganizeStep == pc = "organize" /\ oi <= Len(anomaly_report) /\ oi' # oi

\* C7: in the quarantine stage and in the organize stage, a record whose
\* copy fails, or whose file name is absent from the file index, leaves no
\* copy and stops nothing: the loop goes on with the next record, and a
\* record that does not fail is copied from its source to its destination.
C7_Absorbed == [][
    /\ QuarantineStep =>
         /\ si' = si + 1 /\ pc' = "quarantine"
         /\ out' # out => fs' = fs
         /\ out' = out => fs' = Copied(fs, SuspectSource(suspects[si]), SuspectDestination(suspects[si]))
    /\ OrganizeStep =>
         /\ oi' = oi + 1 /\ pc' = "organize"
         /\ out' # out => fs' = fs
         /\ anomaly_report[oi].file \notin DOMAIN arquivo_map => out' # out
         /\ out' = out => fs' = Copied(fs, arquivo_map[anomaly_report[oi].file], Organized(oi))
    ]_vars

\* C7 witness: a finished run in which a quarantine copy failed, a record's
\* file name was absent from the file index, and a later record was organized.
C7_Witness == /\ pc = "done"
              /\ \E k \in 1..Len(out) : out[k][1] = "Error copying"
              /\ \E i, j \in 1..Len(anomaly_report) :
                   /\ i < j
                   /\ anomaly_report[i].file \notin DOMAIN arquivo_map
                   /\ j \in done_o

\* C9 (as claimed): a step of the quarantine or the organize stage leaves
\* every classified PDF in place with its content, and the copy it makes has
\* the content of the file that was classified for the record it processes.
C9_Original == [][
    removed = 0 =>
      /\ (QuarantineStep \/ OrganizeStep) =>
            \A i \in 1..Len(Classified) : Classified[i] \in DOMAIN fs' /\ fs'[Classified[i]] = fs[Classified[i]]
      /\ (QuarantineStep /\ out' = out) =>
            fs'[SuspectDestination(suspects[si])] = fs[Classified[ReportIndex(anomaly_report, si)]]
      /\ (OrganizeStep /\ out' = out) =>
            fs'[Organized(oi)] = fs[Classified[oi]]
    ]_vars

\* The state of the i-th PDF of the run, from the report and the copies made.
FileState(report, quarantined, organized, i) ==
    IF i \in organized THEN "Organized"
    ELSE IF i \in quarantined THEN "Quarantined"
    ELSE IF i <= Len(report) THEN "Classified"
    ELSE "Unclassified"

Transitions == {<<"Unclassified", "Classified">>, <<"Classified", "Quarantined">>,
                <<"Classified", "Organized">>, <<"Quarantined", "Organized">>}

\* Within a run, each file keeps its state or takes one transition of the
\* state machine; a copy is made only of a classified file, once the report
\* is complete and written; no file is quarantined once it is organized.
StateOrder == pass' = pass =>
    /\ \A i \in 1..Len(anomaly_report') :
         LET before == FileState(anomaly_report, done_q, done_o, i)
             after == FileState(anomaly_report', done_q', done_o', i)
         IN before = after \/ <<before, after>> \in Transitions
    /\ (done_q' # done_q \/ done_o' # done_o) =>
         /\ wi = Len(walk) + 1
         /\ json_file = <<json_dump(anomaly_report)>>
         /\ done_q' \cup done_o' \subseteq 1..Len(anomaly_report)
    /\ (done_q' \ done_q) \cap done_o = {}
    /\ done_q \subseteq done_q' /\ done_o \subseteq done_o'

\* At the end of a run without a failed copy, on a tree no other process
\* changed, every PDF of the tree is classified and Organized.
AllOrganized == (pc = "done" /\ NoCopyFailed /\ removed = 0) =>
    /\ Len(anomaly_report) = Len(Classified)
    /\ \A i \in 1..Len(Classified) : FileState(anomaly_report, done_q, done_o, i) = "Organized"

\* The place of a program point in the script.
Rank(p) == CASE p = "start" -> 0 [] p = "analyze" -> 1 [] p = "mkdir" -> 2 [] p = "filter" -> 3
             [] p = "quarantine" -> 4 [] p = "index" -> 5 [] p = "organize" -> 6 [] p = "done" -> 7

\* Every step moves the run forward: to the second run, to a later program
\* point, or to a later iteration of the loop it is in (the deletion of a
\* file by another process counts as a step of its own).
Progress == \/ pass = "first" /\ pass' = "second"
            \/ pass' = pass /\ Rank(pc') > Rank(pc)
            \/ pass' = pass /\ pc' = pc /\ wi' + si' + oi' + removed' > wi + si + oi + removed

\* Before its end the run always has a step to take: a straight-line
\* statement, or a loop standing at a row or just past the last one.
NeverStuck == pc # "done" =>
    \/ pc \in {"start", "mkdir", "filter", "index"}
    \/ pc = "analyze" /\ wi \in 1..(Len(walk) + 1)
    \/ pc = "quarantine" /\ si \in 1..(Len(suspects) + 1)
    \/ pc = "organize" /\ oi \in 1..(Len(anomaly_report) + 1)

RunEnds == (pc = "start") ~> (pc = "done")

====
